---- MODULE Spec2Model ----
(***************************************************************************)
(* Turn handling of the real-estate voice bot (app/main.py, app/voice2.py, *)
(* app/property_rag.py): the session store, the /voice and /process        *)
(* webhooks, the keyword intent classifier and the reply combination,      *)
(* truncation and speech clean-up.                                         *)
(*                                                                         *)
(* Text is a sequence of one-character strings, so that substring search,  *)
(* slicing, concatenation and replacement are computed as Python computes  *)
(* them.  Time is counted in whole seconds from the launch of a turn's two *)
(* collaborators.  The store is the in-memory dict (REDIS_URL unset), in   *)
(* which get_session, set_session and clear_session never suspend.         *)
(***************************************************************************)
EXTENDS Integers, Sequences, FiniteSets, TLC

VARIABLES
    sessions,   \* _sessions: call_sid -> bot object id, or NoSession
    heap,       \* bot objects: id -> [confirm_count, reject_count]
    req,        \* in-flight /process coroutines: slot -> frame (locals, pc)
    out,        \* the response most recently returned by a webhook
    utterance,  \* classifier harness: the text handed to handle_intents
    classified, \* classifier harness: the label handle_intents returned
    app,        \* the conversation implementation serving the webhooks:
                \* "main" (app/main.py) or "webhook" (app/twilio_webhook.py)
    workers,    \* executor jobs whose wait timed out and which still run
    call        \* the telephony provider's side of the observed call

vars == << sessions, heap, req, out, utterance, classified, app, workers, call >>

---------------------------------------------------------------------------
(* Text constants of the source.                                           *)

FALLBACK_REPLY ==
  <<
    "I", "'", "m", " ", "s", "t", "i", "l", "l", " ", "p", "u", "l", "l", "i", "n",
    "g", " ", "u", "p", " ", "t", "h", "e", " ", "l", "a", "t", "e", "s", "t", " ",
    "d", "e", "t", "a", "i", "l", "s", ".", " ", "C", "o", "u", "l", "d", " ", "y",
    "o", "u", " ", "s", "h", "a", "r", "e", " ", "a", " ", "b", "i", "t", " ", "m",
    "o", "r", "e", " ", "w", "h", "i", "l", "e", " ", "I", " ", "c", "h", "e", "c",
    "k", "?" >>
SESSION_EXPIRED ==
  <<
    "S", "e", "s", "s", "i", "o", "n", " ", "e", "x", "p", "i", "r", "e", "d", ".",
    " ", "P", "l", "e", "a", "s", "e", " ", "c", "a", "l", "l", " ", "a", "g", "a",
    "i", "n", " ", "o", "r", " ", "r", "e", "q", "u", "e", "s", "t", " ", "a", " ",
    "c", "a", "l", "l", "b", "a", "c", "k", "." >>
REPEAT_SAY ==
  <<
    "C", "o", "u", "l", "d", " ", "y", "o", "u", " ", "r", "e", "p", "e", "a", "t",
    " ", "t", "h", "a", "t", "?" >>
REPEAT_GATHER ==
  <<
    "P", "l", "e", "a", "s", "e", " ", "s", "a", "y", " ", "t", "h", "a", "t", " ",
    "a", "g", "a", "i", "n", "." >>
CONFIRM_REPLY ==
  <<
    "P", "e", "r", "f", "e", "c", "t", "!", " ", "I", "'", "l", "l", " ", "p", "r",
    "e", "p", "a", "r", "e", " ", "d", "e", "t", "a", "i", "l", "e", "d", " ", "R",
    "O", "I", " ", "p", "r", "o", "j", "e", "c", "t", "i", "o", "n", "s", " ", "a",
    "n", "d", " ", "o", "u", "r", " ", "s", "e", "n", "i", "o", "r", " ", "a", "d",
    "v", "i", "s", "o", "r", " ", "w", "i", "l", "l", " ", "c", "o", "n", "t", "a",
    "c", "t", " ", "y", "o", "u", " ", "w", "i", "t", "h", "i", "n", " ", "2", "4",
    " ", "h", "o", "u", "r", "s", ".", " ", "G", "o", "o", "d", "b", "y", "e", "!" >>
REJECT_REPLY ==
  <<
    "I", " ", "u", "n", "d", "e", "r", "s", "t", "a", "n", "d", ".", " ", "I", "f",
    " ", "a", "n", "y", "t", "h", "i", "n", "g", " ", "c", "h", "a", "n", "g", "e",
    "s", ",", " ", "c", "o", "n", "t", "a", "c", "t", " ", "B", "a", "a", "z", " ",
    "L", "a", "n", "d", "m", "a", "r", "k", ".", " ", "H", "a", "v", "e", " ", "a",
    " ", "n", "i", "c", "e", " ", "d", "a", "y", "!" >>
THOUGHTS_GATHER ==
  <<
    "W", "h", "a", "t", " ", "a", "r", "e", " ", "y", "o", "u", "r", " ", "t", "h",
    "o", "u", "g", "h", "t", "s", "?" >>
TECHNICAL_ISSUE ==
  <<
    "T", "e", "c", "h", "n", "i", "c", "a", "l", " ", "i", "s", "s", "u", "e", ".",
    " ", "C", "o", "n", "n", "e", "c", "t", "i", "n", "g", " ", "y", "o", "u", " ",
    "t", "o", " ", "a", "n", " ", "a", "g", "e", "n", "t", "." >>
GREETING ==
  <<
    "H", "i", " ", "C", "l", "i", "e", "n", "t", ",", " ", "I", "'", "m", " ", "A",
    "l", "e", "x", "a", " ", "f", "r", "o", "m", " ", "B", "a", "a", "z", " ", "L",
    "a", "n", "d", "m", "a", "r", "k", " ", "R", "e", "a", "l", " ", "E", "s", "t",
    "a", "t", "e", ".", " ", "Y", "o", "u", "r", " ", "D", "u", "b", "a", "i", " ",
    "p", "r", "o", "p", "e", "r", "t", "y", " ", "g", "a", "i", "n", "e", "d", " ",
    "4", "0", "0", ",", "0", "0", "0", " ", "A", "r", "a", "b", " ", "E", "m", "i",
    "r", "a", "t", "e", "s", " ", "D", "i", "r", "h", "a", "m", "s", " ", "s", "i",
    "n", "c", "e", " ", "2", "0", "1", "8", " ", "-", " ", "t", "h", "a", "t", "'",
    "s", " ", "4", "0", ".", "0", " ", "p", "e", "r", "c", "e", "n", "t", " ", "r",
    "e", "t", "u", "r", "n", " ", "o", "n", " ", "i", "n", "v", "e", "s", "t", "m",
    "e", "n", "t", ".", " ", "R", "e", "a", "d", "y", " ", "t", "o", " ", "d", "i",
    "s", "c", "u", "s", "s", "?" >>
NO_SPEECH_GOODBYE ==
  <<
    "I", " ", "d", "i", "d", "n", "'", "t", " ", "c", "a", "t", "c", "h", " ", "t",
    "h", "a", "t", ".", " ", "G", "o", "o", "d", "b", "y", "e", "!" >>
NEUTRAL_RESPONSE ==
  <<
    "T", "h", "a", "n", "k", "s", " ", "f", "o", "r", " ", "s", "h", "a", "r", "i",
    "n", "g", ".", " ", "C", "o", "u", "l", "d", " ", "y", "o", "u", " ", "t", "e",
    "l", "l", " ", "m", "e", " ", "m", "o", "r", "e", " ", "a", "b", "o", "u", "t",
    " ", "y", "o", "u", "r", " ", "p", "r", "e", "f", "e", "r", "e", "n", "c", "e",
    "s", " ", "i", "n", " ", "D", "u", "b", "a", "i", "?" >>
DUMMY_RAG_RESULT ==
  <<
    "B", "a", "s", "e", "d", " ", "o", "n", " ", "D", "u", "b", "a", "i", " ", "m",
    "a", "r", "k", "e", "t", " ", "t", "r", "e", "n", "d", "s", ",", " ", "p", "r",
    "o", "p", "e", "r", "t", "i", "e", "s", " ", "h", "a", "v", "e", " ", "s", "h",
    "o", "w", "n", " ", "s", "t", "e", "a", "d", "y", " ", "R", "O", "I", " ", "g",
    "r", "o", "w", "t", "h", "." >>
AED == << "A", "E", "D" >>
AED_SPOKEN ==
  <<
    "A", "r", "a", "b", " ", "E", "m", "i", "r", "a", "t", "e", "s", " ", "D", "i",
    "r", "h", "a", "m" >>
ROI == << "R", "O", "I" >>
ROI_SPOKEN ==
  <<
    "r", "e", "t", "u", "r", "n", " ", "o", "n", " ", "i", "n", "v", "e", "s", "t",
    "m", "e", "n", "t" >>
GEN_CONFIRM_RESPONSE ==
  <<
    "P", "e", "r", "f", "e", "c", "t", ".", " ", "I", "'", "l", "l", " ", "p", "r",
    "e", "p", "a", "r", "e", " ", "t", "h", "e", " ", "n", "e", "x", "t", " ", "s",
    "t", "e", "p", "s", " ", "r", "i", "g", "h", "t", " ", "a", "w", "a", "y", "." >>
GEN_REJECT_RESPONSE ==
  <<
    "U", "n", "d", "e", "r", "s", "t", "o", "o", "d", ".", " ", "I", "'", "l", "l",
    " ", "c", "l", "o", "s", "e", " ", "t", "h", "i", "s", " ", "d", "i", "s", "c",
    "u", "s", "s", "i", "o", "n", "." >>
GEN_OTHER_RESPONSE ==
  <<
    "I", " ", "s", "e", "e", ".", " ", "L", "e", "t", "'", "s", " ", "c", "o", "n",
    "t", "i", "n", "u", "e", " ", "o", "u", "r", " ", "c", "o", "n", "v", "e", "r",
    "s", "a", "t", "i", "o", "n", "." >>

---------------------------------------------------------------------------
(* Python string operations on texts.                                      *)

Upper == << "A", "B", "C", "D", "E", "F", "G", "H", "I", "J", "K", "L", "M",
            "N", "O", "P", "Q", "R", "S", "T", "U", "V", "W", "X", "Y", "Z" >>
Lower == << "a", "b", "c", "d", "e", "f", "g", "h", "i", "j", "k", "l", "m",
            "n", "o", "p", "q", "r", "s", "t", "u", "v", "w", "x", "y", "z" >>

Whitespace == { " ", "\t", "\n" }

\* str.lower() on one character
LowerChar(c) ==
    IF \E i \in 1..Len(Upper) : Upper[i] = c
    THEN Lower[CHOOSE i \in 1..Len(Upper) : Upper[i] = c]
    ELSE c

\* str.lower()
str_lower(text) == [i \in 1..Len(text) |-> LowerChar(text[i])] \o << >>

\* a strip that drops nothing
str_strip_nothing(text) == text

\* str.strip(): drop leading and trailing whitespace
str_strip(text) ==
    LET keep == { i \in 1..Len(text) : text[i] \notin Whitespace }
    IN  IF keep = {} THEN << >>
        ELSE LET lo == CHOOSE i \in keep : \A j \in keep : i <= j
                 hi == CHOOSE i \in keep : \A j \in keep : j <= i
             IN  SubSeq(text, lo, hi)

\* text[i:].startswith(word), i counted from 1
StartsAt(text, word, i) ==
    /\ i + Len(word) - 1 <= Len(text)
    /\ \A j \in 1..Len(word) : text[i + j - 1] = word[j]

\* word in text
str_contains(text, word) ==
    \E i \in 1..(Len(text) + 1) : StartsAt(text, word, i)

\* text[:n]
str_prefix(text, n) == SubSeq(text, 1, IF n < Len(text) THEN n ELSE Len(text))

\* the concatenation of pieces[lo..hi], halving so that the nesting stays shallow
RECURSIVE Flatten(_, _, _)
Flatten(pieces, lo, hi) ==
    IF lo > hi THEN << >>
    ELSE IF lo = hi THEN pieces[lo]
    ELSE LET mid == (lo + hi) \div 2
         IN  Flatten(pieces, lo, mid) \o Flatten(pieces, mid + 1, hi)

\* the occurrence of old at i is one that str.replace replaces: the scan, which
\* resumes after each replaced occurrence, is not inside an earlier one
RECURSIVE Replaced(_, _, _)
Replaced(text, old, i) ==
    /\ StartsAt(text, old, i)
    /\ \A p \in (i - Len(old) + 1)..(i - 1) :
           (p >= 1 /\ StartsAt(text, old, p)) => ~Replaced(text, old, p)

\* str.replace(old, new): leftmost non-overlapping occurrences, left to right
str_replace(text, old, new) ==
    LET hit == { i \in 1..Len(text) : Replaced(text, old, i) }
        pieces == [i \in 1..Len(text) |->
                      IF i \in hit THEN new
                      ELSE IF \E p \in hit : p < i /\ i < p + Len(old) THEN << >>
                      ELSE << text[i] >>]
    IN  Flatten(pieces, 1, Len(text))

\* " ".join(text.split()): whitespace runs become one space, ends are trimmed
join_split(text) ==
    LET pieces == [i \in 1..Len(text) |->
                      IF text[i] \notin Whitespace THEN << text[i] >>
                      ELSE IF /\ i > 1
                              /\ text[i - 1] \notin Whitespace
                              /\ \E j \in (i + 1)..Len(text) : text[j] \notin Whitespace
                           THEN << " " >>
                           ELSE << >>]
    IN  Flatten(pieces, 1, Len(text))

\* Optional[str]: Python's None, or a str
None == [present |-> FALSE, text |-> << >>]
Some(text) == [present |-> TRUE, text |-> text]

\* truth value of an Optional[str] in `if x:`: None and "" are false
Truthy(x) == x.present /\ Len(x.text) > 0

---------------------------------------------------------------------------
(* app/voice2.py: the keyword intent classifier.                           *)

CONFIRM_WORDS == <<
    << "y", "e", "s" >>,
    << "o", "k", "a", "y" >>,
    << "i", "n", "t", "e", "r", "e", "s", "t", "e", "d" >>,
    << "s", "u", "r", "e" >>,
    << "a", "g", "r", "e", "e" >> >>

REJECT_WORDS == <<
    << "n", "o" >>,
    << "n", "o", "t", " ", "i", "n", "t", "e", "r", "e", "s", "t", "e", "d" >>,
    << "s", "t", "o", "p" >>,
    << "n", "e", "v", "e", "r" >>,
    << "l", "e", "a", "v", "e", " ", "m", "e" >> >>

Intents == { "strong_confirm", "strong_reject", "neutral" }

\* any(word in text for word in words)
any_word_in(words, text) ==
    \E k \in 1..Len(words) : str_contains(text, words[k])

\* handle_intents without text.lower()
handle_intents_case_sensitive(text) ==
    IF any_word_in(CONFIRM_WORDS, text) THEN "strong_confirm"
    ELSE IF any_word_in(REJECT_WORDS, text) THEN "strong_reject"
    ELSE "neutral"

\* handle_intents with the two keyword tests in the other order
handle_intents_reject_first(text) ==
    LET lowered == str_lower(text)
    IN  IF any_word_in(REJECT_WORDS, lowered) THEN "strong_reject"
        ELSE IF any_word_in(CONFIRM_WORDS, lowered) THEN "strong_confirm"
        ELSE "neutral"

\* OptimizedVoiceAssistant.handle_intents
handle_intents(text) ==
    LET lowered == str_lower(text)
    IN  IF any_word_in(CONFIRM_WORDS, lowered) THEN "strong_confirm"
        ELSE IF any_word_in(REJECT_WORDS, lowered) THEN "strong_reject"
        ELSE "neutral"

\* OptimizedVoiceAssistant.__init__: the counters of a new bot object
NewBot == [confirm_count |-> 0, reject_count |-> 0]

---------------------------------------------------------------------------
(* app/main.py: constants, the session store and the reply pipeline.       *)

GENERATION_TIMEOUT == 4
RETRIEVAL_TIMEOUT == 2
MAX_REPLY_CHARS == 300
TRUNCATED_CHARS == 297
STRENGTH_STEP == 2

CallOrder == << "CA1", "CA2" >>
CallSids == { CallOrder[i] : i \in 1..Len(CallOrder) }
NoSession == 0

\* get_session handing out a default session for an unknown call_sid
get_session_default(store, call_sid) ==
    IF store[call_sid] = NoSession THEN 1 ELSE store[call_sid]

\* get_session (in-memory branch): _sessions.get(call_sid)
get_session(store, call_sid) == store[call_sid]

\* set_session that keeps the record a call already has
set_session_if_absent(store, call_sid, bot_obj) ==
    IF store[call_sid] # NoSession THEN store
    ELSE [store EXCEPT ![call_sid] = bot_obj]

\* set_session (in-memory branch): _sessions[call_sid] = {"bot": bot_obj, ...}
set_session(store, call_sid, bot_obj) ==
    [store EXCEPT ![call_sid] = bot_obj]

\* clear_session that leaves _sessions alone
clear_session_noop(store, call_sid) == store

\* clear_session (in-memory branch): del _sessions[call_sid] when present
clear_session(store, call_sid) ==
    IF store[call_sid] # NoSession
    THEN [store EXCEPT ![call_sid] = NoSession]
    ELSE store

\* clean_text_for_tts
clean_text_for_tts(text) ==
    join_split(str_replace(str_replace(text, AED, AED_SPOKEN), ROI, ROI_SPOKEN))

\* the combination with the context text standing in for a missing main text
combine_reply_context_alone(main_response, rag_context) ==
    IF Truthy(main_response)
    THEN IF Truthy(rag_context) /\ Len(rag_context.text) > 0
         THEN main_response.text \o << " " >> \o rag_context.text
         ELSE main_response.text
    ELSE IF Truthy(rag_context) THEN rag_context.text
    ELSE FALLBACK_REPLY

\* the combination without the separating space
combine_reply_no_space(main_response, rag_context) ==
    IF Truthy(main_response)
    THEN IF Truthy(rag_context) /\ Len(rag_context.text) > 0
         THEN main_response.text \o rag_context.text
         ELSE main_response.text
    ELSE FALLBACK_REPLY

\* the combination policy of process: main text, context text -> reply
combine_reply(main_response, rag_context) ==
    IF Truthy(main_response)
    THEN IF Truthy(rag_context) /\ Len(rag_context.text) > 0
         THEN main_response.text \o << " " >> \o rag_context.text
         ELSE main_response.text
    ELSE FALLBACK_REPLY

\* the length cap cutting at the cap itself: reply[:300] + "."
truncate_reply_at_cap(reply) ==
    IF Len(reply) > MAX_REPLY_CHARS
    THEN str_prefix(reply, MAX_REPLY_CHARS) \o << "." >>
    ELSE reply

\* the length cap of process: reply[:297] + "." when len(reply) > 300
truncate_reply(reply) ==
    IF Len(reply) > MAX_REPLY_CHARS
    THEN str_prefix(reply, TRUNCATED_CHARS) \o << "." >>
    ELSE reply

\* TwiML verbs of a VoiceResponse, in document order
Say(text) == [verb |-> "Say", text |-> text]
Gather(text) == [verb |-> "Gather", text |-> text]
Hangup == [verb |-> "Hangup", text |-> << >>]

\* the response continues listening: it holds a <Gather>
Continues(doc) == \E i \in 1..Len(doc) : doc[i].verb = "Gather"
\* the response ends the call: it holds a <Hangup>
HangsUp(doc) == \E i \in 1..Len(doc) : doc[i].verb = "Hangup"
\* the lines spoken outside a <Gather>
Spoken(doc) == { doc[i].text : i \in { j \in 1..Len(doc) : doc[j].verb = "Say" } }

\* OptimizedVoiceAssistant.generate_fast_response
generate_fast_response(user_input, intent) ==
    IF intent = "neutral" THEN NEUTRAL_RESPONSE
    ELSE IF intent = "strong_confirm" THEN GEN_CONFIRM_RESPONSE
    ELSE IF intent = "strong_reject" THEN GEN_REJECT_RESPONSE
    ELSE GEN_OTHER_RESPONSE

\* RealEstateRAG.query_knowledge_base without embeddings (GOOGLE_API_KEY unset)
query_knowledge_base(query) == DUMMY_RAG_RESULT

---------------------------------------------------------------------------
(* Bot objects live on a heap; a session and a coroutine frame refer to a  *)
(* bot by its address.  An object nothing refers to any more is freed.     *)
(* Addresses carry no meaning, so after every step the live objects are    *)
(* renumbered 1, 2, ... in the order the store and then the frames refer   *)
(* to them.                                                                *)

MaxBots == 5
BotIds == 1..MaxBots
ReqOrder == << "r1", "r2" >>
Reqs == { ReqOrder[i] : i \in 1..Len(ReqOrder) }

\* what a collaborator did on a turn: returned text or raised, `at` seconds
\* after launch; NoOutcome when the handler never awaited it
NoOutcome == [kind |-> "none", text |-> << >>, at |-> 0]
Returned(text, at) == [kind |-> "value", text |-> text, at |-> at]
Raised(at) == [kind |-> "raise", text |-> << >>, at |-> at]

\* a coroutine frame of process that is not running
Idle == [pc |-> "idle", call_sid |-> "", bot |-> NoSession, user_input |-> << >>,
         intent |-> "", main_response |-> None, now |-> 0, log |-> {},
         gen |-> NoOutcome]

\* no webhook returned in the last step
NoResponse ==
    [op |-> "none", call_sid |-> "", doc |-> << >>, unhandled |-> FALSE,
     speech |-> None, user_input |-> << >>, intent |-> "", raised |-> "",
     gen |-> NoOutcome, rag |-> NoOutcome,
     main_response |-> None, rag_context |-> None,
     combined |-> << >>, reply |-> << >>,
     elapsed |-> 0, log |-> {}, bot |-> NewBot]

\* every reference to a bot object: the store's, then the frames'
RefList(store, frames) ==
    [i \in 1..(Len(CallOrder) + Len(ReqOrder)) |->
        IF i <= Len(CallOrder) THEN store[CallOrder[i]]
        ELSE frames[ReqOrder[i - Len(CallOrder)]].bot]

Referenced(store, frames) ==
    { RefList(store, frames)[i] : i \in 1..(Len(CallOrder) + Len(ReqOrder)) }
        \ { NoSession }

\* the address of object b after renumbering
Renumbered(refs, b) ==
    IF b = NoSession THEN NoSession
    ELSE LET first == CHOOSE i \in 1..Len(refs) :
                          refs[i] = b /\ \A j \in 1..(i - 1) : refs[j] # b
         IN  Cardinality({ refs[j] : j \in 1..first } \ { NoSession })

\* every call handed the one same bot object
Alloc_one_object(store, frames) == 1

\* OptimizedVoiceAssistant(CallSid): the address of a fresh object
Alloc(store, frames) ==
    CHOOSE b \in BotIds :
        /\ b \notin Referenced(store, frames)
        /\ \A a \in BotIds : a \notin Referenced(store, frames) => b <= a

\* the state a step leaves: unreferenced objects freed, the rest renumbered
Commit(store, objects, frames) ==
    LET refs == RefList(store, frames)
        live == Referenced(store, frames)
    IN  /\ sessions' = [c \in CallSids |-> Renumbered(refs, store[c])]
        /\ req' = [r \in Reqs |->
                     [frames[r] EXCEPT !.bot = Renumbered(refs, frames[r].bot)]]
        /\ heap' = [k \in BotIds |->
                      IF \E b \in live : Renumbered(refs, b) = k
                      THEN objects[CHOOSE b \in live : Renumbered(refs, b) = k]
                      ELSE NewBot]

\* the observed call before the provider has placed it: its status, the
\* non-empty turns answered without error, the current run of re-prompts
NoCall == [status |-> "none", turns |-> 0, empties |-> 0]

Init ==
    /\ sessions = [c \in CallSids |-> NoSession]
    /\ heap = [b \in BotIds |-> NewBot]
    /\ req = [r \in Reqs |-> Idle]
    /\ out = NoResponse
    /\ utterance = << >>
    /\ classified = ""
    /\ app = "main"
    /\ workers = {}
    /\ call = NoCall

---------------------------------------------------------------------------
(* POST /voice                                                             *)

\* the TwiML of voice: the greeting inside a <Gather>, then the no-speech goodbye
voice_twiml ==
    << Gather(clean_text_for_tts(GREETING)), Say(NO_SPEECH_GOODBYE), Hangup >>

voice(CallSid) ==
    LET bot == Alloc(sessions, req)
    IN  /\ Commit(set_session(sessions, CallSid, bot),
                  [heap EXCEPT ![bot] = NewBot], req)
        /\ out' = [NoResponse EXCEPT
                     !.op = "voice", !.call_sid = CallSid, !.doc = voice_twiml]
        /\ UNCHANGED << utterance, classified >>

---------------------------------------------------------------------------
(* POST /process, from its entry to its first suspension or its return.    *)
(* classifier_raises: bot.handle_intents raises instead of returning.      *)

\* an except branch that hangs up and leaves the session in the store
error_path_keeping_session(r, call_sid, base, who) ==
    /\ Commit(sessions, heap, [req EXCEPT ![r] = Idle])
    /\ out' = [base EXCEPT
                 !.doc = << Say(TECHNICAL_ISSUE), Hangup >>,
                 !.raised = who,
                 !.log = @ \cup { "exception" }]

\* the except branch of process: apology, hang up, clear_session
error_path(r, call_sid, base, who) ==
    /\ Commit(clear_session(sessions, call_sid), heap, [req EXCEPT ![r] = Idle])
    /\ out' = [base EXCEPT
                 !.doc = << Say(TECHNICAL_ISSUE), Hangup >>,
                 !.raised = who,
                 !.log = @ \cup { "exception" }]

\* the TwiML of a decisive turn: the closing line, cleaned for speech, then hang up
closing_twiml ==
    [reply \in { CONFIRM_REPLY, REJECT_REPLY } |->
        << Say(clean_text_for_tts(reply)), Hangup >>]

\* a decisive turn that closes the call without counting the intent
closing_turn_uncounted(call_sid, base, bot, counted, reply) ==
    /\ Commit(clear_session(sessions, call_sid), heap, req)
    /\ out' = [base EXCEPT
                 !.combined = reply,
                 !.reply = reply,
                 !.doc = << Say(clean_text_for_tts(reply)), Hangup >>,
                 !.bot = heap[bot]]

\* a decisive intent: count it, say the closing line, hang up, clear_session
closing_turn(call_sid, base, bot, counted, reply) ==
    /\ Commit(clear_session(sessions, call_sid), counted, req)
    /\ out' = [base EXCEPT
                 !.combined = reply,
                 !.reply = reply,
                 !.doc = closing_twiml[reply],
                 !.bot = counted[bot]]

process_start(r, CallSid, SpeechResult, classifier_raises) ==
    /\ req[r].pc = "idle"
    /\ UNCHANGED << utterance, classified >>
    /\ LET sess == get_session(sessions, CallSid)
           user_input == str_lower(str_strip(
                             IF SpeechResult.present THEN SpeechResult.text ELSE << >>))
           intent == handle_intents(user_input)
           base == [NoResponse EXCEPT
                      !.op = "process", !.call_sid = CallSid, !.speech = SpeechResult]
       IN  IF sess = NoSession
           THEN /\ out' = [base EXCEPT !.doc = << Say(SESSION_EXPIRED), Hangup >>]
                /\ UNCHANGED << sessions, heap, req >>
           ELSE IF user_input = << >>
           THEN /\ out' = [base EXCEPT
                             !.doc = << Say(REPEAT_SAY), Gather(REPEAT_GATHER) >>,
                             !.bot = heap[sess]]
                /\ UNCHANGED << sessions, heap, req >>
           ELSE IF classifier_raises
           THEN /\ out' = [base EXCEPT
                             !.user_input = user_input, !.unhandled = TRUE,
                             !.raised = "classify", !.bot = heap[sess]]
                /\ UNCHANGED << sessions, heap, req >>
           ELSE IF intent = "strong_confirm"
           THEN closing_turn(CallSid,
                    [base EXCEPT !.user_input = user_input, !.intent = intent], sess,
                    [heap EXCEPT ![sess].confirm_count = @ + STRENGTH_STEP],
                    CONFIRM_REPLY)
           ELSE IF intent = "strong_reject"
           THEN closing_turn(CallSid,
                    [base EXCEPT !.user_input = user_input, !.intent = intent], sess,
                    [heap EXCEPT ![sess].reject_count = @ + STRENGTH_STEP],
                    REJECT_REPLY)
           ELSE /\ Commit(sessions, heap,
                          [req EXCEPT ![r] =
                             [Idle EXCEPT !.pc = "await_main", !.call_sid = CallSid,
                                          !.bot = sess, !.user_input = user_input,
                                          !.intent = intent]])
                /\ out' = NoResponse

---------------------------------------------------------------------------
(* POST /process, resumed: await asyncio.wait_for(main_future, 4.0).       *)
(* g is what the Reply Generator does on this turn.                        *)

\* wait_for without the except asyncio.TimeoutError clause: a timeout propagates
wait_for_uncaught(x, started, timeout) ==
    IF x.at < started + timeout
    THEN [how |-> x.kind, text |-> x.text,
          at |-> IF x.at > started THEN x.at ELSE started]
    ELSE [how |-> "raise", text |-> << >>, at |-> started + timeout]

\* wait_for inside an except clause that takes any exception for a timeout
wait_for_swallowing(x, started, timeout) ==
    IF x.at < started + timeout /\ x.kind = "value"
    THEN [how |-> "value", text |-> x.text,
          at |-> IF x.at > started THEN x.at ELSE started]
    ELSE [how |-> "timeout", text |-> << >>,
          at |-> IF x.at < started + timeout
                 THEN (IF x.at > started THEN x.at ELSE started)
                 ELSE started + timeout]

\* try: await asyncio.wait_for(future, timeout) except asyncio.TimeoutError:
\* the wait starts `started` seconds after launch; x is what the future does
wait_for(x, started, timeout) ==
    IF x.at < started + timeout
    THEN [how |-> x.kind, text |-> x.text,
          at |-> IF x.at > started THEN x.at ELSE started]
    ELSE [how |-> "timeout", text |-> << >>, at |-> started + timeout]

await_main(r, g) ==
    /\ req[r].pc = "await_main"
    /\ g.at # GENERATION_TIMEOUT
    /\ UNCHANGED << utterance, classified >>
    /\ LET f == req[r]
           got == wait_for(g, 0, GENERATION_TIMEOUT)
           base == [NoResponse EXCEPT
                      !.op = "process", !.call_sid = f.call_sid,
                      !.user_input = f.user_input, !.intent = f.intent,
                      !.gen = g, !.elapsed = got.at, !.bot = heap[f.bot]]
       IN  IF got.how = "raise"
           THEN error_path(r, f.call_sid, base, "generate")
           ELSE /\ req' = [req EXCEPT ![r] =
                             [f EXCEPT
                                !.pc = "await_rag", !.gen = g, !.now = got.at,
                                !.main_response =
                                    IF got.how = "value" THEN Some(got.text) ELSE None,
                                !.log = IF got.how = "timeout"
                                        THEN @ \cup { "timeout_main" } ELSE @]]
                /\ out' = NoResponse
                /\ UNCHANGED << sessions, heap >>

---------------------------------------------------------------------------
(* POST /process, resumed: await asyncio.wait_for(rag_future, 2.0), then   *)
(* combine, truncate, say and gather.  k is what the Knowledge Lookup does *)
(* on this turn; its own clock started at launch, the wait starts now.     *)

await_rag(r, k) ==
    /\ req[r].pc = "await_rag"
    /\ k.at # req[r].now + RETRIEVAL_TIMEOUT
    /\ UNCHANGED << utterance, classified >>
    /\ LET f == req[r]
           got == wait_for(k, f.now, RETRIEVAL_TIMEOUT)
           rag_context == IF got.how = "value" THEN Some(got.text) ELSE None
           combined == combine_reply(f.main_response, rag_context)
           reply == truncate_reply(combined)
           base == [NoResponse EXCEPT
                      !.op = "process", !.call_sid = f.call_sid,
                      !.user_input = f.user_input, !.intent = f.intent,
                      !.gen = f.gen, !.rag = k, !.main_response = f.main_response,
                      !.elapsed = got.at, !.log = f.log, !.bot = heap[f.bot]]
       IN  IF got.how = "raise"
           THEN error_path(r, f.call_sid, base, "lookup")
           ELSE /\ out' = [base EXCEPT
                             !.rag_context = rag_context,
                             !.combined = combined,
                             !.reply = reply,
                             !.doc = << Say(clean_text_for_tts(reply)),
                                        Gather(THOUGHTS_GATHER) >>,
                             !.log = (f.log
                                      \cup (IF got.how = "timeout"
                                            THEN { "timeout_rag" } ELSE {})
                                      \cup (IF Truthy(f.main_response) THEN {}
                                            ELSE { "fallback" }))]
                /\ Commit(sessions, heap, [req EXCEPT ![r] = Idle])

---------------------------------------------------------------------------
(* What the callers and the collaborators may do.                          *)

\* a text of n characters
Pad(n) == [i \in 1..n |-> "x"] \o << >>

\* n copies of a text
Repeat(text, n) ==
    [i \in 1..(n * Len(text)) |-> text[((i - 1) % Len(text)) + 1]] \o << >>

\* SpeechResult values of the concurrent model
SpeechBrief == {
    None,
    Some(<< "Y", "e", "s" >>),
    Some(<< "n", "o" >>),
    Some(<< "T", "e", "l", "l", " ", "m", "e", " ", "a", "b", "o", "u", "t", " ", "R", "O", "I" >>) }

\* SpeechResult values of the single-turn model
SpeechWide == SpeechBrief \cup {
    Some(<< >>),
    Some(<< " ", " ", " " >>),
    Some(<< "n", "o", "t", " ", "i", "n", "t", "e", "r", "e", "s", "t", "e", "d" >>),
    Some(<< " ", "I", " ", "k", "n", "o", "w", " " >>),
    Some(<< "y", "e", "s", " ", "o", "r", " ", "n", "o" >>),
    Some(<< "S", "t", "o", "p" >>) }

\* Reply Generator: the shipped one answers at once; a slow, a failing one
GenBrief(f) == {
    Returned(generate_fast_response(f.user_input, f.intent), 1),
    Returned(generate_fast_response(f.user_input, f.intent), 5),
    Raised(1) }

GenTexts(f) == {
    generate_fast_response(f.user_input, f.intent),
    << >>,
    Pad(MAX_REPLY_CHARS - 2),
    Pad(MAX_REPLY_CHARS),
    Pad(MAX_REPLY_CHARS + 1),
    Repeat(<< "9", " ", "A", "E", "D", " " >>, 49) }

GenWide(f) ==
    { Returned(t, at) : t \in GenTexts(f), at \in { 1, 3, 5 } }
    \cup { Raised(1), Raised(5) }

\* Knowledge Lookup: the shipped one answers at once; a slow, a failing one
RagBrief(f) == {
    Returned(query_knowledge_base(f.user_input), 1),
    Returned(query_knowledge_base(f.user_input), 7),
    Raised(1) }

RagTexts(f) == { query_knowledge_base(f.user_input), << >>, Pad(1) }

RagWide(f) ==
    { Returned(t, at) : t \in RagTexts(f), at \in { 1, 4, 7 } }
    \cup { Raised(1), Raised(7) }

---------------------------------------------------------------------------
(* Spec: the service as deployed.  Webhooks of any calls interleave at the *)
(* suspension points of process, duplicates for one call included.         *)

(* A job abandoned at a timeout changes nothing when it completes (see     *)
(* worker_done), and the provider's view of a call does not act on the     *)
(* service; the specifications that do not observe them leave both alone.  *)
Unobserved == UNCHANGED << app, workers, call >>

Next ==
    \/ \E c \in CallSids : voice(c) /\ Unobserved
    \/ \E r \in Reqs, c \in CallSids, s \in SpeechBrief, x \in BOOLEAN :
           process_start(r, c, s, x) /\ Unobserved
    \/ \E r \in Reqs : \E g \in GenBrief(req[r]) : await_main(r, g) /\ Unobserved
    \/ \E r \in Reqs : \E k \in RagBrief(req[r]) : await_rag(r, k) /\ Unobserved

Spec == Init /\ [][Next]_vars

(* SpecSerial: the telephony provider delivers the webhooks of one call    *)
(* one at a time; webhooks of different calls still interleave.            *)

NoTurnInFlight(c) == \A r \in Reqs : req[r].pc = "idle" \/ req[r].call_sid # c

NextSerial ==
    \/ \E c \in CallSids : NoTurnInFlight(c) /\ voice(c) /\ Unobserved
    \/ \E r \in Reqs, c \in CallSids, s \in SpeechBrief, x \in BOOLEAN :
           NoTurnInFlight(c) /\ process_start(r, c, s, x) /\ Unobserved
    \/ \E r \in Reqs : \E g \in GenBrief(req[r]) : await_main(r, g) /\ Unobserved
    \/ \E r \in Reqs : \E k \in RagBrief(req[r]) : await_rag(r, k) /\ Unobserved

SpecSerial == Init /\ [][NextSerial]_vars

(* SpecTurn: one webhook at a time, with the wide ranges of speech, of     *)
(* collaborator texts and of collaborator timings.                         *)

NextTurn ==
    \/ \E c \in CallSids : req["r1"].pc = "idle" /\ voice(c) /\ Unobserved
    \/ \E c \in CallSids, s \in SpeechWide, x \in BOOLEAN :
           process_start("r1", c, s, x) /\ Unobserved
    \/ \E g \in GenWide(req["r1"]) : await_main("r1", g) /\ Unobserved
    \/ \E k \in RagWide(req["r1"]) : await_rag("r1", k) /\ Unobserved

SpecTurn == Init /\ [][NextTurn]_vars

---------------------------------------------------------------------------
(* SpecWorkers: one webhook at a time, with the executor jobs that were    *)
(* abandoned at a timeout observed until they complete.  wait_for cancels  *)
(* the asyncio future of such a job (and lines 226 and 232 cancel it       *)
(* again), but the worker thread runs on and completes at some later time, *)
(* possibly during a later turn.                                           *)

\* the job behind future x if the wait on it, begun `started` seconds after
\* launch, times out
abandoned(call_sid, which, x, started, timeout) ==
    IF wait_for(x, started, timeout).how = "timeout"
    THEN { [call_sid |-> call_sid, which |-> which, result |-> x] }
    ELSE {}

\* a completing job handing its text to whichever turn has gone past its own
\* wait for that collaborator
deliver_by_completion_order(frames, job) ==
    [r \in Reqs |->
        IF frames[r].pc = "await_rag" /\ job.which = "main"
               /\ job.result.kind = "value"
        THEN [frames[r] EXCEPT !.main_response = Some(job.result.text)]
        ELSE frames[r]]

\* what the coroutine frames get from a completing abandoned job: its future
\* is cancelled, so the result is copied nowhere
deliver(frames, job) == frames

\* an abandoned job completes
worker_done(j) ==
    /\ j \in workers
    /\ workers' = workers \ { j }
    /\ Commit(sessions, heap, deliver(req, j))
    /\ out' = [NoResponse EXCEPT !.op = "late", !.call_sid = j.call_sid]
    /\ UNCHANGED << utterance, classified, app, call >>

NextWorkers ==
    \/ \E c \in CallSids : req["r1"].pc = "idle" /\ voice(c) /\ Unobserved
    \/ \E c \in CallSids, s \in SpeechBrief, x \in BOOLEAN :
           process_start("r1", c, s, x) /\ Unobserved
    \/ \E g \in GenBrief(req["r1"]) :
           /\ await_main("r1", g)
           /\ workers' = workers \cup abandoned(req["r1"].call_sid, "main", g,
                                                0, GENERATION_TIMEOUT)
           /\ UNCHANGED << app, call >>
    \/ \E k \in RagBrief(req["r1"]) :
           /\ await_rag("r1", k)
           /\ workers' = workers \cup abandoned(req["r1"].call_sid, "rag", k,
                                                req["r1"].now, RETRIEVAL_TIMEOUT)
           /\ UNCHANGED << app, call >>
    \/ \E j \in workers : worker_done(j)

SpecWorkers == Init /\ [][NextWorkers]_vars

---------------------------------------------------------------------------
(* app/twilio_webhook.py: the Flask variant of the conversation.  Its      *)
(* handlers are synchronous; they are modelled one request at a time.      *)
(* Formatted numbers are taken from client_data: profit 2,100,000 and      *)
(* return 175 percent.                                                     *)

WEBHOOK_GREETING ==
  <<
    "H", "i", " ", "J", "o", "h", "n", " ", "S", "m", "i", "t", "h", ",", " ", "t",
    "h", "i", "s", " ", "i", "s", " ", "A", "l", "e", "x", "a", " ", "f", "r", "o",
    "m", " ", "B", "a", "a", "z", " ", "L", "a", "n", "d", "m", "a", "r", "k", " ",
    "R", "e", "a", "l", " ", "E", "s", "t", "a", "t", "e", ".", " ", "Y", "o", "u",
    "r", " ", "D", "o", "w", "n", "t", "o", "w", "n", " ", "D", "u", "b", "a", "i",
    " ", "p", "r", "o", "p", "e", "r", "t", "y", " ", "g", "a", "i", "n", "e", "d",
    " ", "2", ",", "1", "0", "0", ",", "0", "0", "0", " ", "A", "r", "a", "b", " ",
    "E", "m", "i", "r", "a", "t", "e", "s", " ", "D", "i", "r", "h", "a", "m", "s",
    " ", "s", "i", "n", "c", "e", " ", "2", "0", "2", "0", ".", " ", "T", "h", "a",
    "t", "'", "s", " ", "1", "7", "5", " ", "p", "e", "r", "c", "e", "n", "t", " ",
    "r", "e", "t", "u", "r", "n", " ", "o", "n", " ", "i", "n", "v", "e", "s", "t",
    "m", "e", "n", "t", "!", " ", "A", "r", "e", " ", "y", "o", "u", " ", "i", "n",
    "t", "e", "r", "e", "s", "t", "e", "d", " ", "i", "n", " ", "m", "a", "x", "i",
    "m", "i", "z", "i", "n", "g", " ", "t", "h", "i", "s", " ", "f", "u", "r", "t",
    "h", "e", "r", "?" >>
WEBHOOK_NO_SPEECH_GOODBYE ==
  <<
    "I", " ", "d", "i", "d", "n", "'", "t", " ", "h", "e", "a", "r", " ", "a", " ",
    "r", "e", "s", "p", "o", "n", "s", "e", ".", " ", "O", "u", "r", " ", "t", "e",
    "a", "m", " ", "w", "i", "l", "l", " ", "c", "a", "l", "l", " ", "y", "o", "u",
    " ", "b", "a", "c", "k", ".", " ", "G", "o", "o", "d", "b", "y", "e", "!" >>
WEBHOOK_SESSION_EXPIRED ==
  <<
    "S", "e", "s", "s", "i", "o", "n", " ", "e", "x", "p", "i", "r", "e", "d", ".",
    " ", "P", "l", "e", "a", "s", "e", " ", "c", "a", "l", "l", " ", "b", "a", "c",
    "k", "." >>
WEBHOOK_REPROMPT ==
  <<
    "I", " ", "d", "i", "d", "n", "'", "t", " ", "c", "a", "t", "c", "h", " ", "t",
    "h", "a", "t", ".", " ", "A", "r", "e", " ", "y", "o", "u", " ", "i", "n", "t",
    "e", "r", "e", "s", "t", "e", "d", " ", "i", "n", " ", "h", "e", "a", "r", "i",
    "n", "g", " ", "a", "b", "o", "u", "t", " ", "m", "a", "x", "i", "m", "i", "z",
    "i", "n", "g", " ", "y", "o", "u", "r", " ", "p", "r", "o", "p", "e", "r", "t",
    "y", " ", "r", "e", "t", "u", "r", "n", "s", "?" >>
WEBHOOK_TROUBLE_HEARING ==
  <<
    "I", "'", "m", " ", "h", "a", "v", "i", "n", "g", " ", "t", "r", "o", "u", "b",
    "l", "e", " ", "h", "e", "a", "r", "i", "n", "g", " ", "y", "o", "u", ".", " ",
    "O", "u", "r", " ", "s", "e", "n", "i", "o", "r", " ", "a", "d", "v", "i", "s",
    "o", "r", " ", "w", "i", "l", "l", " ", "c", "a", "l", "l", " ", "y", "o", "u",
    " ", "b", "a", "c", "k", " ", "w", "i", "t", "h", "i", "n", " ", "2", "4", " ",
    "h", "o", "u", "r", "s", ".", " ", "T", "h", "a", "n", "k", " ", "y", "o", "u",
    "!" >>
WEBHOOK_EXIT_REPLY ==
  <<
    "I", " ", "u", "n", "d", "e", "r", "s", "t", "a", "n", "d", ".", " ", "Y", "o",
    "u", "'", "l", "l", " ", "b", "e", " ", "r", "e", "m", "o", "v", "e", "d", " ",
    "f", "r", "o", "m", " ", "o", "u", "r", " ", "c", "a", "l", "l", "i", "n", "g",
    " ", "l", "i", "s", "t", ".", " ", "H", "a", "v", "e", " ", "a", " ", "g", "r",
    "e", "a", "t", " ", "d", "a", "y", "!" >>
WEBHOOK_POSITIVE_REPLY ==
  <<
    "E", "x", "c", "e", "l", "l", "e", "n", "t", "!", " ", "I", "'", "l", "l", " ",
    "s", "e", "n", "d", " ", "y", "o", "u", " ", "d", "e", "t", "a", "i", "l", "e",
    "d", " ", "i", "n", "v", "e", "s", "t", "m", "e", "n", "t", " ", "p", "r", "o",
    "j", "e", "c", "t", "i", "o", "n", "s", " ", "v", "i", "a", " ", "W", "h", "a",
    "t", "s", "A", "p", "p", " ", "a", "n", "d", " ", "h", "a", "v", "e", " ", "o",
    "u", "r", " ", "s", "e", "n", "i", "o", "r", " ", "a", "d", "v", "i", "s", "o",
    "r", " ", "c", "o", "n", "t", "a", "c", "t", " ", "y", "o", "u", " ", "w", "i",
    "t", "h", "i", "n", " ", "2", "4", " ", "h", "o", "u", "r", "s", " ", "w", "i",
    "t", "h", " ", "s", "p", "e", "c", "i", "f", "i", "c", " ", "o", "p", "p", "o",
    "r", "t", "u", "n", "i", "t", "i", "e", "s", ".", " ", "T", "h", "a", "n", "k",
    " ", "y", "o", "u", "!" >>
WEBHOOK_FINAL_MESSAGE ==
  <<
    "I", " ", "c", "a", "n", " ", "s", "e", "e", " ", "y", "o", "u", " ", "n", "e",
    "e", "d", " ", "t", "i", "m", "e", " ", "t", "o", " ", "c", "o", "n", "s", "i",
    "d", "e", "r", " ", "t", "h", "i", "s", ".", " ", "O", "u", "r", " ", "s", "e",
    "n", "i", "o", "r", " ", "a", "d", "v", "i", "s", "o", "r", " ", "w", "i", "l",
    "l", " ", "s", "e", "n", "d", " ", "y", "o", "u", " ", "d", "e", "t", "a", "i",
    "l", "e", "d", " ", "i", "n", "f", "o", "r", "m", "a", "t", "i", "o", "n", " ",
    "a", "n", "d", " ", "f", "o", "l", "l", "o", "w", " ", "u", "p", " ", "p", "e",
    "r", "s", "o", "n", "a", "l", "l", "y", ".", " ", "T", "h", "a", "n", "k", " ",
    "y", "o", "u", " ", "f", "o", "r", " ", "y", "o", "u", "r", " ", "t", "i", "m",
    "e", "!" >>
WEBHOOK_THINK_GATHER ==
  <<
    "W", "h", "a", "t", " ", "d", "o", " ", "y", "o", "u", " ", "t", "h", "i", "n",
    "k", "?" >>
WEBHOOK_TECHNICAL_ISSUE ==
  <<
    "I", "'", "m", " ", "e", "x", "p", "e", "r", "i", "e", "n", "c", "i", "n", "g",
    " ", "a", " ", "t", "e", "c", "h", "n", "i", "c", "a", "l", " ", "i", "s", "s",
    "u", "e", ".", " ", "O", "u", "r", " ", "s", "e", "n", "i", "o", "r", " ", "a",
    "d", "v", "i", "s", "o", "r", " ", "w", "i", "l", "l", " ", "c", "a", "l", "l",
    " ", "y", "o", "u", " ", "b", "a", "c", "k", " ", "s", "h", "o", "r", "t", "l",
    "y", ".", " ", "T", "h", "a", "n", "k", " ", "y", "o", "u", "!" >>
QUICK_POSITIVE_1 ==
  <<
    "E", "x", "c", "e", "l", "l", "e", "n", "t", "!", " ", "Y", "o", "u", "r", " ",
    "p", "r", "o", "p", "e", "r", "t", "y", " ", "g", "a", "i", "n", "e", "d", " ",
    "2", ",", "1", "0", "0", ",", "0", "0", "0", " ", "d", "i", "r", "h", "a", "m",
    "s", " ", "s", "i", "n", "c", "e", " ", "2", "0", "2", "0", ".", " ", "T", "h",
    "a", "t", "'", "s", " ", "1", "7", "5", " ", "p", "e", "r", "c", "e", "n", "t",
    " ", "r", "e", "t", "u", "r", "n", ".", " ", "T", "h", "e", " ", "t", "i", "m",
    "i", "n", "g", " ", "i", "s", " ", "p", "e", "r", "f", "e", "c", "t", " ", "t",
    "o", " ", "m", "a", "x", "i", "m", "i", "z", "e", " ", "t", "h", "i", "s", " ",
    "f", "u", "r", "t", "h", "e", "r", "." >>
QUICK_POSITIVE_2 ==
  <<
    "G", "r", "e", "a", "t", "!", " ", "W", "i", "t", "h", " ", "D", "u", "b", "a",
    "i", "'", "s", " ", "m", "a", "r", "k", "e", "t", " ", "m", "o", "m", "e", "n",
    "t", "u", "m", ",", " ", "s", "m", "a", "r", "t", " ", "i", "n", "v", "e", "s",
    "t", "o", "r", "s", " ", "a", "r", "e", " ", "r", "e", "p", "o", "s", "i", "t",
    "i", "o", "n", "i", "n", "g", " ", "n", "o", "w", ".", " ", "W", "o", "u", "l",
    "d", " ", "y", "o", "u", " ", "l", "i", "k", "e", " ", "t", "o", " ", "h", "e",
    "a", "r", " ", "a", "b", "o", "u", "t", " ", "s", "t", "r", "a", "t", "e", "g",
    "i", "c", " ", "o", "p", "t", "i", "o", "n", "s", " ", "t", "h", "a", "t", " ",
    "c", "o", "u", "l", "d", " ", "d", "o", "u", "b", "l", "e", " ", "y", "o", "u",
    "r", " ", "r", "e", "t", "u", "r", "n", "s", "?" >>
QUICK_POSITIVE_3 ==
  <<
    "P", "e", "r", "f", "e", "c", "t", " ", "t", "i", "m", "i", "n", "g", "!", " ",
    "Y", "o", "u", "r", " ", "v", "i", "l", "l", "a", "'", "s", " ", "p", "e", "r",
    "f", "o", "r", "m", "a", "n", "c", "e", " ", "s", "h", "o", "w", "s", " ", "y",
    "o", "u", " ", "m", "a", "k", "e", " ", "s", "m", "a", "r", "t", " ", "i", "n",
    "v", "e", "s", "t", "m", "e", "n", "t", " ", "d", "e", "c", "i", "s", "i", "o",
    "n", "s", ".", " ", "L", "e", "t", " ", "m", "e", " ", "s", "h", "a", "r", "e",
    " ", "h", "o", "w", " ", "s", "u", "c", "c", "e", "s", "s", "f", "u", "l", " ",
    "i", "n", "v", "e", "s", "t", "o", "r", "s", " ", "a", "r", "e", " ", "l", "e",
    "v", "e", "r", "a", "g", "i", "n", "g", " ", "t", "h", "i", "s", " ", "m", "a",
    "r", "k", "e", "t", " ", "c", "y", "c", "l", "e", "." >>
QUICK_NEGATIVE_1 ==
  <<
    "I", " ", "u", "n", "d", "e", "r", "s", "t", "a", "n", "d", " ", "y", "o", "u",
    "'", "r", "e", " ", "b", "u", "s", "y", ".", " ", "J", "u", "s", "t", " ", "c",
    "o", "n", "s", "i", "d", "e", "r", " ", "-", " ", "y", "o", "u", "r", " ", "p",
    "r", "o", "p", "e", "r", "t", "y", " ", "d", "o", "u", "b", "l", "e", "d", " ",
    "i", "n", " ", "v", "a", "l", "u", "e", ".", " ", "W", "h", "a", "t", " ", "i",
    "f", " ", "i", "t", " ", "c", "o", "u", "l", "d", " ", "d", "o", "u", "b", "l",
    "e", " ", "a", "g", "a", "i", "n", " ", "t", "h", "r", "o", "u", "g", "h", " ",
    "s", "m", "a", "r", "t", " ", "r", "e", "p", "o", "s", "i", "t", "i", "o", "n",
    "i", "n", "g", "?", " ", "J", "u", "s", "t", " ", "2", " ", "m", "i", "n", "u",
    "t", "e", "s", " ", "o", "f", " ", "y", "o", "u", "r", " ", "t", "i", "m", "e",
    "?" >>
QUICK_NEGATIVE_2 ==
  <<
    "N", "o", " ", "p", "r", "o", "b", "l", "e", "m", ".", " ", "B", "u", "t", " ",
    "b", "e", "f", "o", "r", "e", " ", "I", " ", "g", "o", " ", "-", " ", "w", "o",
    "u", "l", "d", " ", "y", "o", "u", " ", "r", "a", "t", "h", "e", "r", " ", "l",
    "o", "c", "k", " ", "i", "n", " ", "y", "o", "u", "r", " ", "2", ".", "1", " ",
    "m", "i", "l", "l", "i", "o", "n", " ", "d", "i", "r", "h", "a", "m", " ", "p",
    "r", "o", "f", "i", "t", " ", "n", "o", "w", ",", " ", "o", "r", " ", "r", "i",
    "s", "k", " ", "w", "a", "i", "t", "i", "n", "g", " ", "t", "h", "r", "o", "u",
    "g", "h", " ", "t", "h", "e", " ", "s", "u", "m", "m", "e", "r", " ", "s", "l",
    "o", "w", "d", "o", "w", "n", "?", " ", "Q", "u", "i", "c", "k", " ", "q", "u",
    "e", "s", "t", "i", "o", "n", " ", "f", "o", "r", " ", "y", "o", "u", "." >>
QUICK_NEGATIVE_3 ==
  <<
    "I", " ", "r", "e", "s", "p", "e", "c", "t", " ", "t", "h", "a", "t", ".", " ",
    "M", "a", "r", "k", "e", "t", " ", "t", "i", "m", "i", "n", "g", " ", "i", "s",
    " ", "p", "e", "r", "s", "o", "n", "a", "l", ".", " ", "I", "f", " ", "y", "o",
    "u", "r", " ", "s", "i", "t", "u", "a", "t", "i", "o", "n", " ", "c", "h", "a",
    "n", "g", "e", "s", ",", " ", "o", "u", "r", " ", "s", "e", "n", "i", "o", "r",
    " ", "a", "d", "v", "i", "s", "o", "r", "s", " ", "a", "r", "e", " ", "a", "l",
    "w", "a", "y", "s", " ", "a", "v", "a", "i", "l", "a", "b", "l", "e", ".", " ",
    "H", "a", "v", "e", " ", "a", " ", "g", "r", "e", "a", "t", " ", "d", "a", "y",
    "!" >>
QUICK_QUESTION ==
  <<
    "G", "r", "e", "a", "t", " ", "q", "u", "e", "s", "t", "i", "o", "n", "!", " ",
    "T", "h", "e", " ", "s", "t", "r", "a", "t", "e", "g", "y", " ", "i", "s", " ",
    "s", "i", "m", "p", "l", "e", " ", "-", " ", "s", "e", "l", "l", " ", "y", "o",
    "u", "r", " ", "v", "i", "l", "l", "a", " ", "a", "t", " ", "p", "e", "a", "k",
    " ", "v", "a", "l", "u", "e", ",", " ", "t", "h", "e", "n", " ", "a", "c", "q",
    "u", "i", "r", "e", " ", "2", "-", "3", " ", "a", "p", "a", "r", "t", "m", "e",
    "n", "t", "s", " ", "i", "n", " ", "h", "i", "g", "h", "-", "g", "r", "o", "w",
    "t", "h", " ", "a", "r", "e", "a", "s", ".", " ", "T", "h", "i", "s", " ", "m",
    "u", "l", "t", "i", "p", "l", "i", "e", "s", " ", "y", "o", "u", "r", " ", "r",
    "e", "n", "t", "a", "l", " ", "i", "n", "c", "o", "m", "e", " ", "a", "n", "d",
    " ", "c", "a", "p", "i", "t", "a", "l", " ", "a", "p", "p", "r", "e", "c", "i",
    "a", "t", "i", "o", "n", ".", " ", "I", "n", "t", "e", "r", "e", "s", "t", "e",
    "d", " ", "i", "n", " ", "t", "h", "e", " ", "s", "p", "e", "c", "i", "f", "i",
    "c", "s", "?" >>
QUICK_DEFAULT ==
  <<
    "B", "a", "s", "e", "d", " ", "o", "n", " ", "y", "o", "u", "r", " ", "e", "x",
    "c", "e", "l", "l", "e", "n", "t", " ", "1", "7", "5", " ", "p", "e", "r", "c",
    "e", "n", "t", " ", "r", "e", "t", "u", "r", "n", ",", " ", "y", "o", "u", "'",
    "r", "e", " ", "c", "l", "e", "a", "r", "l", "y", " ", "a", " ", "s", "m", "a",
    "r", "t", " ", "i", "n", "v", "e", "s", "t", "o", "r", ".", " ", "T", "h", "e",
    " ", "q", "u", "e", "s", "t", "i", "o", "n", " ", "i", "s", " ", "-", " ", "a",
    "r", "e", " ", "y", "o", "u", " ", "r", "e", "a", "d", "y", " ", "t", "o", " ",
    "p", "o", "t", "e", "n", "t", "i", "a", "l", "l", "y", " ", "d", "o", "u", "b",
    "l", "e", " ", "t", "h", "e", "s", "e", " ", "r", "e", "t", "u", "r", "n", "s",
    " ", "t", "h", "r", "o", "u", "g", "h", " ", "s", "t", "r", "a", "t", "e", "g",
    "i", "c", " ", "r", "e", "p", "o", "s", "i", "t", "i", "o", "n", "i", "n", "g",
    "?" >>

\* get_quick_response: the keyword lists
QUICK_POSITIVE_WORDS == <<
    << "y", "e", "s" >>,
    << "i", "n", "t", "e", "r", "e", "s", "t", "e", "d" >>,
    << "t", "e", "l", "l", " ", "m", "e" >>,
    << "g", "o", " ", "a", "h", "e", "a", "d" >>,
    << "s", "u", "r", "e" >>,
    << "o", "k", "a", "y" >> >>

QUICK_NEGATIVE_WORDS == <<
    << "n", "o" >>,
    << "n", "o", "t", " ", "i", "n", "t", "e", "r", "e", "s", "t", "e", "d" >>,
    << "b", "u", "s", "y" >>,
    << "l", "a", "t", "e", "r" >>,
    << "d", "o", "n", "'", "t", " ", "w", "a", "n", "t" >> >>

QUICK_QUESTION_WORDS == <<
    << "h", "o", "w" >>,
    << "w", "h", "a", "t" >>,
    << "w", "h", "e", "r", "e" >>,
    << "w", "h", "e", "n" >>,
    << "w", "h", "y" >> >>

\* process: the strong exit and the strong positive signals
EXIT_PHRASES == <<
    << "n", "o", "t", " ", "i", "n", "t", "e", "r", "e", "s", "t", "e", "d" >>,
    << "d", "o", "n", "'", "t", " ", "c", "a", "l", "l" >>,
    << "r", "e", "m", "o", "v", "e", " ", "m", "e" >>,
    << "s", "t", "o", "p", " ", "c", "a", "l", "l", "i", "n", "g" >> >>

POSITIVE_PHRASES == <<
    << "v", "e", "r", "y", " ", "i", "n", "t", "e", "r", "e", "s", "t", "e", "d" >>,
    << "l", "e", "t", "'", "s", " ", "d", "o", " ", "i", "t" >>,
    << "s", "e", "n", "d", " ", "i", "n", "f", "o", "r", "m", "a", "t", "i", "o", "n" >>,
    << "c", "o", "n", "n", "e", "c", "t", " ", "m", "e" >> >>

\* clean_for_speech: the replacements, in the order of the dict
replacements == <<
    << << "A", "E", "D" >>,
       << "A", "r", "a", "b", " ", "E", "m", "i", "r", "a", "t", "e", "s", " ", "D", "i", "r", "h", "a", "m" >> >>,
    << << "R", "O", "I" >>,
       << "r", "e", "t", "u", "r", "n", " ", "o", "n", " ", "i", "n", "v", "e", "s", "t", "m", "e", "n", "t" >> >>,
    << << "A", "I" >>,
       << "A", ".", "I", "." >> >>,
    << << "3", ".", "3", "M" >>,
       << "3", ".", "3", " ", "m", "i", "l", "l", "i", "o", "n" >> >>,
    << << "1", ".", "2", "M" >>,
       << "1", ".", "2", " ", "m", "i", "l", "l", "i", "o", "n" >> >>,
    << << "2", ".", "1", "M" >>,
       << "2", ".", "1", " ", "m", "i", "l", "l", "i", "o", "n" >> >>,
    << << "%" >>,
       << " ", "p", "e", "r", "c", "e", "n", "t" >> >>,
    << << "&" >>,
       << " ", "a", "n", "d", " " >> >>,
    << << "v", "s" >>,
       << "v", "e", "r", "s", "u", "s" >> >> >>

\* text after the replacements from the n-th one on
RECURSIVE replace_from(_, _)
replace_from(text, n) ==
    IF n > Len(replacements) THEN text
    ELSE replace_from(str_replace(text, replacements[n][1], replacements[n][2]), n + 1)

\* clean_for_speech
clean_for_speech(text) == replace_from(text, 1)

EXCHANGE_CEILING == 4
LONG_RESPONSE == 200

\* ReliableVoiceAssistant.__init__: the counters and flags of a new bot object
NewAssistant == [exchange_count |-> 0, confirmed |-> FALSE, rejected |-> FALSE]

\* ReliableVoiceAssistant.get_quick_response
get_quick_response(bot, user_input) ==
    IF any_word_in(QUICK_POSITIVE_WORDS, user_input)
    THEN << QUICK_POSITIVE_1, QUICK_POSITIVE_2, QUICK_POSITIVE_3 >>
             [(bot.exchange_count % 3) + 1]
    ELSE IF any_word_in(QUICK_NEGATIVE_WORDS, user_input)
    THEN IF bot.exchange_count >= 2 THEN QUICK_NEGATIVE_3
         ELSE << QUICK_NEGATIVE_1, QUICK_NEGATIVE_2 >>[(bot.exchange_count % 2) + 1]
    ELSE IF any_word_in(QUICK_QUESTION_WORDS, user_input)
    THEN QUICK_QUESTION
    ELSE QUICK_DEFAULT

\* '.'.join(response.split('.')[:2]) + '.'
first_two_sentences(response) ==
    LET dots == { i \in 1..Len(response) : response[i] = "." }
        later == { i \in dots : \E j \in dots : j < i }
    IN  IF later = {} THEN response \o << "." >>
        ELSE SubSeq(response, 1, (CHOOSE i \in later : \A j \in later : i <= j) - 1)
                 \o << "." >>

\* ReliableVoiceAssistant.generate_response; gemini is what
\* model.generate_content does when it is asked
generate_response(bot, user_input, gemini) ==
    LET quick_response == get_quick_response(bot, user_input)
    IN  IF Len(quick_response) > 0 THEN quick_response
        ELSE IF gemini.kind = "raise"
        THEN get_quick_response(bot, << "d", "e", "f", "a", "u", "l", "t" >>)
        ELSE LET response == str_strip(gemini.text)
             IN  IF Len(response) > LONG_RESPONSE
                 THEN first_two_sentences(response)
                 ELSE response

\* the TwiML of voice: the greeting inside a <Gather>, then the no-speech goodbye
webhook_voice_twiml ==
    << Gather(clean_for_speech(WEBHOOK_GREETING)),
       Say(WEBHOOK_NO_SPEECH_GOODBYE), Hangup >>

\* POST /voice: sessions[call_sid] = {'bot': ReliableVoiceAssistant(call_sid), ...}
webhook_voice(CallSid) ==
    LET bot == Alloc(sessions, req)
    IN  /\ Commit(set_session(sessions, CallSid, bot),
                  [heap EXCEPT ![bot] = NewAssistant], req)
        /\ out' = [NoResponse EXCEPT
                     !.op = "voice", !.call_sid = CallSid,
                     !.doc = webhook_voice_twiml, !.bot = NewAssistant]
        /\ UNCHANGED << utterance, classified >>

\* say a closing line, hang up, del sessions[call_sid]
webhook_closing(call_sid, base, objects, line) ==
    /\ Commit([sessions EXCEPT ![call_sid] = NoSession], objects, req)
    /\ out' = [base EXCEPT !.doc = << Say(line), Hangup >>]

\* POST /process.  gemini: what model.generate_content does if asked;
\* generator_raises: bot.generate_response raises instead of returning
webhook_process(CallSid, SpeechResult, gemini, generator_raises) ==
    /\ UNCHANGED << utterance, classified >>
    /\ LET sess == sessions[CallSid]
           user_input == str_lower(IF SpeechResult.present
                                   THEN SpeechResult.text ELSE << >>)
           counted == [heap EXCEPT ![sess].exchange_count = @ + 1]
           base == [NoResponse EXCEPT
                      !.op = "process", !.call_sid = CallSid, !.speech = SpeechResult]
           heard == [base EXCEPT !.user_input = user_input, !.bot = counted[sess]]
       IN  IF sess = NoSession
           THEN /\ out' = [base EXCEPT !.doc = << Say(WEBHOOK_SESSION_EXPIRED), Hangup >>]
                /\ UNCHANGED << sessions, heap, req >>
           ELSE IF str_strip(user_input) = << >>
           THEN IF heap[sess].exchange_count = 0
                THEN /\ out' = [base EXCEPT !.doc = << Gather(WEBHOOK_REPROMPT) >>,
                                            !.bot = heap[sess]]
                     /\ UNCHANGED << sessions, heap, req >>
                ELSE webhook_closing(CallSid, [base EXCEPT !.bot = heap[sess]], heap,
                                     WEBHOOK_TROUBLE_HEARING)
           ELSE IF any_word_in(EXIT_PHRASES, user_input)
           THEN webhook_closing(CallSid, [heard EXCEPT !.intent = "exit"], counted,
                                WEBHOOK_EXIT_REPLY)
           ELSE IF any_word_in(POSITIVE_PHRASES, user_input)
           THEN webhook_closing(CallSid, [heard EXCEPT !.intent = "positive"], counted,
                                WEBHOOK_POSITIVE_REPLY)
           ELSE IF generator_raises
           THEN webhook_closing(CallSid,
                                [heard EXCEPT !.raised = "generate",
                                              !.log = { "exception" }],
                                counted, WEBHOOK_TECHNICAL_ISSUE)
           ELSE LET reply == generate_response(counted[sess], user_input, gemini)
                    clean_reply == clean_for_speech(reply)
                    told == [heard EXCEPT !.combined = reply, !.reply = clean_reply]
                IN  IF counted[sess].exchange_count >= EXCHANGE_CEILING
                    THEN webhook_closing(CallSid, told, counted,
                                         clean_for_speech(WEBHOOK_FINAL_MESSAGE))
                    ELSE /\ Commit(sessions, counted, req)
                         /\ out' = [told EXCEPT
                                      !.doc = << Say(clean_reply),
                                                 Gather(WEBHOOK_THINK_GATHER) >>]

---------------------------------------------------------------------------
(* SpecCalls: one call as the telephony provider drives it, against either *)
(* implementation.  The provider posts /voice when the call is answered,   *)
(* then one /process at a time while the call is up, and nothing once the  *)
(* call has ended.  A call ends when a response hangs up, when a request   *)
(* fails, or when the caller stays silent or hangs up, of which the        *)
(* service is not told: no route receives a call-status callback.          *)
(* The provider may post /voice again for a call that is up (a retried or  *)
(* redirected webhook): the service takes it like the first one.           *)
(* `call` records the provider's status of the call and its history: the   *)
(* number of non-empty turns answered without error and the length of the  *)
(* current run of re-prompted empty turns, both counted up to a bound.     *)

Watched == CallOrder[1]
MaxTurns == 5
MaxEmpties == 3

\* the response ends the call: it hangs up, or it is no document at all
EndsCall(o) == o.unhandled \/ (HangsUp(o.doc) /\ ~Continues(o.doc))

\* the handler found no utterance to work on
EmptyTurn(o) == o.user_input = << >>

\* the provider's record of the call after a step that returned response o
observed(c, o) ==
    IF o.op = "voice" THEN [status |-> "live", turns |-> 0, empties |-> 0]
    ELSE IF o.op # "process" THEN c
    ELSE [status |-> IF EndsCall(o) THEN "ended" ELSE c.status,
          turns |-> IF ~EmptyTurn(o) /\ o.raised = "" /\ c.turns < MaxTurns
                    THEN c.turns + 1 ELSE c.turns,
          empties |-> IF ~EmptyTurn(o) THEN 0
                      ELSE IF Continues(o.doc) /\ c.empties < MaxEmpties
                      THEN c.empties + 1 ELSE c.empties]

Observed == call' = observed(call, out') /\ UNCHANGED << app, workers >>

\* the caller says nothing more or hangs up: the provider plays what is left
\* of the last document and ends the call; the service receives no request
hang_up ==
    /\ call.status = "live"
    /\ req["r1"].pc = "idle"
    /\ call' = [call EXCEPT !.status = "ended"]
    /\ out' = NoResponse
    /\ UNCHANGED << sessions, heap, req, utterance, classified, app, workers >>

\* the time-to-live of a session (3600 s in the Redis branch of set_session)
\* passes after the call has ended; the in-memory branch evicts nothing
ttl_elapses ==
    /\ call.status = "ended"
    /\ call' = [call EXCEPT !.status = "stale"]
    /\ out' = NoResponse
    /\ UNCHANGED << sessions, heap, req, utterance, classified, app, workers >>

\* what model.generate_content may do
GeminiBrief == { Returned(<< "S", "u", "r", "e", "." >>, 1), Raised(1) }

InitCalls ==
    /\ sessions = [c \in CallSids |-> NoSession]
    /\ heap = [b \in BotIds |-> NewBot]
    /\ req = [r \in Reqs |-> Idle]
    /\ out = NoResponse
    /\ utterance = << >>
    /\ classified = ""
    /\ app \in { "main", "webhook" }
    /\ workers = {}
    /\ call = NoCall

NextCalls ==
    \/ call.status \in { "none", "live" } /\ app = "main"
           /\ voice(Watched) /\ Observed
    \/ call.status \in { "none", "live" } /\ app = "webhook"
           /\ webhook_voice(Watched) /\ Observed
    \/ \E s \in SpeechWide, x \in BOOLEAN :
           /\ call.status = "live"
           /\ app = "main"
           /\ process_start("r1", Watched, s, x)
           /\ Observed
    \/ \E g \in GenBrief(req["r1"]) : await_main("r1", g) /\ Observed
    \/ \E k \in RagBrief(req["r1"]) : await_rag("r1", k) /\ Observed
    \/ \E s \in SpeechWide, m \in GeminiBrief, x \in BOOLEAN :
           /\ call.status = "live"
           /\ app = "webhook"
           /\ webhook_process(Watched, s, m, x)
           /\ Observed
    \/ hang_up
    \/ ttl_elapses

SpecCalls == InitCalls /\ [][NextCalls]_vars

---------------------------------------------------------------------------
(* SpecDuplicates: app/main.py with duplicate deliveries for one call: a   *)
(* /process of the call may arrive while another one is suspended on its   *)
(* collaborators, and after the call was closed.  `call` records whether   *)
(* the call has been closed: "closed" from a /process that answered a call *)
(* that had a session with a hangup, until the next /voice.                *)

closed_by(c, o, store) ==
    IF o.op = "voice" THEN [c EXCEPT !.status = "live"]
    ELSE IF /\ o.op = "process"
            /\ HangsUp(o.doc)
            /\ (c.status = "closed" \/ get_session(store, o.call_sid) # NoSession)
    THEN [c EXCEPT !.status = "closed"]
    ELSE c

Tracked == call' = closed_by(call, out', sessions) /\ UNCHANGED << app, workers >>

NextDuplicates ==
    \/ voice(Watched) /\ Tracked
    \/ \E r \in Reqs, s \in SpeechBrief, x \in BOOLEAN :
           process_start(r, Watched, s, x) /\ Tracked
    \/ \E r \in Reqs : \E g \in GenBrief(req[r]) : await_main(r, g) /\ Tracked
    \/ \E r \in Reqs : \E k \in RagBrief(req[r]) : await_rag(r, k) /\ Tracked

SpecDuplicates == Init /\ [][NextDuplicates]_vars

---------------------------------------------------------------------------
(* SpecClassify: handle_intents applied to every utterance of up to        *)
(* MaxWords words of Vocabulary, joined by single spaces.                  *)

MaxWords == 3

Vocabulary == {
    << "Y", "e", "s" >>,
    << "O", "K", "A", "Y" >>,
    << "i", "n", "t", "e", "r", "e", "s", "t", "e", "d" >>,
    << "n", "o", "t" >>,
    << "N", "o" >>,
    << "S", "t", "o", "p" >>,
    << "l", "e", "a", "v", "e" >>,
    << "m", "e" >>,
    << "k", "n", "o", "w" >>,
    << "t", "e", "l", "l" >> }

RECURSIVE JoinWords(_)
JoinWords(ws) ==
    IF Len(ws) = 0 THEN << >>
    ELSE IF Len(ws) = 1 THEN ws[1]
    ELSE ws[1] \o << " " >> \o JoinWords(Tail(ws))

Utterances ==
    { JoinWords(ws) : ws \in UNION { [1..n -> Vocabulary] : n \in 0..MaxWords } }

InitClassify ==
    /\ sessions = [c \in CallSids |-> NoSession]
    /\ heap = [b \in BotIds |-> NewBot]
    /\ req = [r \in Reqs |-> Idle]
    /\ out = NoResponse
    /\ utterance \in Utterances
    /\ classified = ""
    /\ app = "main"
    /\ workers = {}
    /\ call = NoCall

classify ==
    /\ classified = ""
    /\ classified' = handle_intents(utterance)
    /\ UNCHANGED << sessions, heap, req, out, utterance, app, workers, call >>

SpecClassify == InitClassify /\ [][classify]_vars

---------------------------------------------------------------------------
(* Vocabulary of the properties.  `out` is the response the last step      *)
(* returned, with the locals of the handler that returned it and what its  *)
(* collaborators did; `sessions` in the same state is the store right      *)
(* after that response.                                                    *)

Decisive == { "strong_confirm", "strong_reject" }

\* the response of a neutral turn, returned from one of its awaits
NeutralTurn == out.op = "process" /\ out.intent = "neutral"

\* a /process that found its session missing answers with this document
ExpiredDoc == << Say(SESSION_EXPIRED), Hangup >>

\* the response returned in a step is that of a /process for c which ran
\* from its entry to its return within the step
TurnStartedAndReturned(o, c) ==
    o.op = "process" /\ o.call_sid = c /\ o.gen.kind = "none"

\* text holds one of words, letter case ignored
HasWord(words, text) ==
    \E k \in 1..Len(words) :
        \E i \in 1..Len(text) :
            /\ i + Len(words[k]) - 1 <= Len(text)
            /\ \A j \in 1..Len(words[k]) : LowerChar(text[i + j - 1]) = words[k][j]

---------------------------------------------------------------------------
(* C1: on a neutral turn whose Reply Generator has not completed when      *)
(* generation_timeout elapses, the reply is the fixed fallback text,       *)
(* whether the Knowledge Lookup returned text, returned the empty text or  *)
(* ran out of time; the lookup text alone is never the reply.              *)
C1_FallbackWhenGeneratorTimesOut ==
    ( /\ NeutralTurn
      /\ out.gen.at > GENERATION_TIMEOUT
      /\ \/ out.rag.kind = "value"
         \/ out.rag.at > GENERATION_TIMEOUT + RETRIEVAL_TIMEOUT )
    => /\ out.reply = FALLBACK_REPLY
       /\ out.doc[1] = Say(FALLBACK_REPLY)

C1_Witness ==
    /\ NeutralTurn
    /\ out.gen.at > GENERATION_TIMEOUT
    /\ out.rag.kind = "value"
    /\ out.rag.at < RETRIEVAL_TIMEOUT
    /\ Len(out.rag.text) > 0
    /\ out.reply = FALLBACK_REPLY

(* C2: a neutral turn whose collaborators return but of which one is too   *)
(* late is no error outcome: a late generator is logged, the response      *)
(* gathers speech again and does not hang up, and the session of the call  *)
(* is in the store after the turn.                                         *)
C2_TimeoutRecoveredLocally ==
    ( /\ NeutralTurn
      /\ out.gen.kind = "value"
      /\ out.rag.kind # "raise"
      /\ (out.gen.at > GENERATION_TIMEOUT \/ out.rag.at > RETRIEVAL_TIMEOUT) )
    => /\ Continues(out.doc)
       /\ ~HangsUp(out.doc)
       /\ ~out.unhandled
       /\ "exception" \notin out.log
       /\ out.gen.at > GENERATION_TIMEOUT => "timeout_main" \in out.log
       /\ sessions[out.call_sid] # NoSession

C2_Witness ==
    /\ NeutralTurn
    /\ out.gen.kind = "value"
    /\ out.gen.at > GENERATION_TIMEOUT
    /\ "timeout_main" \in out.log
    /\ Continues(out.doc)
    /\ sessions[out.call_sid] # NoSession

(* C3: on a neutral turn whose Reply Generator returned a text within      *)
(* generation_timeout and whose Knowledge Lookup did not return within     *)
(* retrieval_timeout of its launch, or returned the empty text, the reply  *)
(* before the length cap is the generator's text and nothing more.         *)
C3_GeneratorTextAlone ==
    ( /\ NeutralTurn
      /\ out.gen.kind = "value"
      /\ out.gen.at < GENERATION_TIMEOUT
      /\ Len(out.gen.text) > 0
      /\ out.rag.kind = "value"
      /\ (out.rag.at > RETRIEVAL_TIMEOUT \/ out.rag.text = << >>) )
    => out.combined = out.gen.text

(* C4, as claimed: when both collaborators return within their own         *)
(* timeouts and the lookup text is not empty, the reply before the length  *)
(* cap is the generator text, one space, the lookup text.                  *)
C4_BothInTime ==
    /\ NeutralTurn
    /\ out.gen.kind = "value"
    /\ out.gen.at < GENERATION_TIMEOUT
    /\ out.rag.kind = "value"
    /\ out.rag.at < RETRIEVAL_TIMEOUT
    /\ Len(out.rag.text) > 0

C5_ClosedByTurn ==
    (out.op = "process" /\ out.intent \in Decisive)
    => /\ out.doc = << Say(clean_text_for_tts(
                              IF out.intent = "strong_confirm"
                              THEN CONFIRM_REPLY ELSE REJECT_REPLY)), Hangup >>
       /\ ~Continues(out.doc)
       /\ sessions[out.call_sid] = NoSession

C5_StaysClosed ==
    \A c \in CallSids :
        sessions[c] = NoSession =>
            /\ sessions'[c] # NoSession => (out'.op = "voice" /\ out'.call_sid = c)
            /\ TurnStartedAndReturned(out', c) => out'.doc = ExpiredDoc

C5_DecisiveTurnEndsCall == [](C5_ClosedByTurn) /\ [][C5_StaysClosed]_vars

C5_Witness ==
    /\ out.op = "process"
    /\ out.intent = "strong_reject"
    /\ HangsUp(out.doc)
    /\ sessions[out.call_sid] = NoSession

(* C6: whenever classification, the Reply Generator or the Knowledge       *)
(* Lookup raises during a turn, the turn still returns a document, that    *)
(* document is the technical-issue line and a hangup, and the session of   *)
(* the call is gone.                                                       *)
C6_ErrorsCaughtAtBoundary ==
    (out.op = "process" /\ out.raised \in { "classify", "generate", "lookup" })
    => /\ ~out.unhandled
       /\ out.doc = << Say(TECHNICAL_ISSUE), Hangup >>
       /\ sessions[out.call_sid] = NoSession

(* C7: a call has a session only from a /voice for it until its            *)
(* destruction; get_session for a call without one answers absent, and a   *)
(* /process for such a call fails closed: it answers "session expired"     *)
(* with a hangup and no gather, raises nothing and creates no session.     *)
C7_Step ==
    \A c \in CallSids :
        sessions[c] = NoSession =>
            /\ get_session(sessions, c) = NoSession
            /\ sessions'[c] # NoSession => (out'.op = "voice" /\ out'.call_sid = c)
            /\ TurnStartedAndReturned(out', c) =>
                   /\ out'.doc = ExpiredDoc
                   /\ HangsUp(out'.doc)
                   /\ ~Continues(out'.doc)
                   /\ ~out'.unhandled
                   /\ sessions'[c] = NoSession

C7_NoSessionFailsClosed == [][C7_Step]_vars

C7_Witness ==
    /\ out.op = "process"
    /\ out.doc = ExpiredDoc
    /\ sessions[out.call_sid] = NoSession

(* C8: the reply of a turn is never longer than max_reply_chars; a         *)
(* combined text longer than that is returned cut to max_reply_chars - 3   *)
(* characters with a period appended, a shorter one is returned as it is.  *)
C8_ReplyWithinCap ==
    out.op = "process"
    => /\ Len(out.reply) <= MAX_REPLY_CHARS
       /\ Len(out.combined) > MAX_REPLY_CHARS
              => out.reply = SubSeq(out.combined, 1, MAX_REPLY_CHARS - 3) \o << "." >>
       /\ Len(out.combined) <= MAX_REPLY_CHARS => out.reply = out.combined

C8_Witness ==
    /\ NeutralTurn
    /\ Len(out.combined) > MAX_REPLY_CHARS
    /\ Len(out.reply) = MAX_REPLY_CHARS - 2

(* C9: handle_intents answers every utterance with one of the three        *)
(* labels, ignoring letter case: strong_confirm when a confirm keyword and *)
(* no reject keyword occurs in it, strong_reject when a reject keyword and *)
(* no confirm keyword occurs, neutral when neither occurs.                 *)
C9_ClassifierByKeywords ==
    classified # "" =>
        LET confirm == HasWord(CONFIRM_WORDS, utterance)
            reject == HasWord(REJECT_WORDS, utterance)
        IN  /\ classified \in Intents
            /\ (confirm /\ ~reject) => classified = "strong_confirm"
            /\ (reject /\ ~confirm) => classified = "strong_reject"
            /\ (~confirm /\ ~reject) => classified = "neutral"

C9_Witness ==
    /\ classified = "strong_reject"
    /\ utterance # str_lower(utterance)
    /\ HasWord(REJECT_WORDS, utterance)
    /\ ~HasWord(CONFIRM_WORDS, utterance)

(* C10: a turn whose utterance holds both a confirm and a reject keyword,  *)
(* "not interested" among them, is classified strong_confirm and closes    *)
(* the call with the positive closing line.                                *)
C10_ConfirmHasPriority ==
    ( /\ out.op = "process"
      /\ out.raised # "classify"
      /\ HasWord(CONFIRM_WORDS, out.user_input)
      /\ HasWord(REJECT_WORDS, out.user_input) )
    => /\ out.intent = "strong_confirm"
       /\ out.doc = << Say(clean_text_for_tts(CONFIRM_REPLY)), Hangup >>

C10_Witness ==
    /\ out.op = "process"
    /\ out.user_input = << "n", "o", "t", " ", "i", "n", "t", "e", "r", "e", "s", "t", "e", "d" >>
    /\ out.intent = "strong_confirm"
    /\ HangsUp(out.doc)

(* C11: on a neutral turn both collaborators are launched before either is *)
(* awaited, and the combination step is reached at most                    *)
(* max(generation_timeout, retrieval_timeout) seconds after the launch.    *)
C11_LatencyWithinLongerTimeout ==
    (NeutralTurn /\ out.rag.kind # "none" /\ out.raised = "")
    => out.elapsed <= (IF GENERATION_TIMEOUT >= RETRIEVAL_TIMEOUT
                       THEN GENERATION_TIMEOUT ELSE RETRIEVAL_TIMEOUT)

(* C12: a Knowledge Lookup result that becomes available later than        *)
(* retrieval_timeout after the launch of the lookup counts as absent and   *)
(* is not appended to the reply, whenever the Reply Generator completes.   *)
C12_LookupHeldToOwnTimeout ==
    ( /\ NeutralTurn
      /\ out.raised = ""
      /\ out.rag.kind = "value"
      /\ out.rag.at > RETRIEVAL_TIMEOUT )
    => /\ out.rag_context = None
       /\ out.combined \in { FALLBACK_REPLY, out.gen.text }

(* C18: sessions of distinct calls are distinct bot objects, and a step    *)
(* changes whether a call has a session, or the counters of its session,   *)
(* only when the step returns the response of a /voice or /process for     *)
(* that very call.                                                         *)
C18_DistinctRecords ==
    \A c, d \in CallSids :
        (c # d /\ sessions[c] # NoSession /\ sessions[d] # NoSession)
        => sessions[c] # sessions[d]

C18_OthersUntouched ==
    \A d \in CallSids :
        ( \/ (sessions[d] = NoSession) # (sessions'[d] = NoSession)
          \/ /\ sessions[d] # NoSession
             /\ sessions'[d] # NoSession
             /\ heap'[sessions'[d]] # heap[sessions[d]] )
        => (out'.op \in { "voice", "process" } /\ out'.call_sid = d)

C18_SessionsNotShared == [](C18_DistinctRecords) /\ [][C18_OthersUntouched]_vars

C18_Witness ==
    /\ out.op = "process"
    /\ out.intent \in Decisive
    /\ out.bot.confirm_count + out.bot.reject_count = STRENGTH_STEP
    /\ \E d \in CallSids :
           /\ d # out.call_sid
           /\ sessions[d] # NoSession
           /\ heap[sessions[d]] = NewBot

(* C20, as claimed: a collaborator that raises on a neutral turn is        *)
(* treated like one that timed out: a raising generator gives the fallback *)
(* reply, a raising lookup gives the generator text alone, and in both     *)
(* cases the response gathers again and the session stays.                 *)
C20_RaiseLikeTimeout ==
    ( /\ out.op = "process"
      /\ out.intent = "neutral"
      /\ (out.gen.kind = "raise" \/ out.rag.kind = "raise") )
    => /\ Continues(out.doc)
       /\ ~HangsUp(out.doc)
       /\ sessions[out.call_sid] # NoSession
       /\ out.gen.kind = "raise" => out.reply = FALLBACK_REPLY
       /\ (out.gen.kind = "value" /\ out.gen.at < GENERATION_TIMEOUT
               /\ Len(out.gen.text) > 0)
           => out.combined = out.gen.text

\* seconds after launch at which the wait on the lookup gives up
C20_LookupDeadline ==
    (IF out.gen.at < GENERATION_TIMEOUT THEN out.gen.at ELSE GENERATION_TIMEOUT)
        + RETRIEVAL_TIMEOUT

\* the collaborator raised while process was awaiting it
C20_RaisedWhileAwaited ==
    \/ out.gen.kind = "raise" /\ out.gen.at < GENERATION_TIMEOUT
    \/ out.rag.kind = "raise" /\ out.rag.at < C20_LookupDeadline

(* C20, amended: a collaborator that raises while it is awaited ends the   *)
(* turn on the error path (technical-issue line, hangup, session gone);    *)
(* only one that raises after its wait has timed out is treated like a     *)
(* timeout: generator -> fallback reply, lookup -> generator text alone,   *)
(* gathering again with the session kept.                                  *)
C20_RaiseWhileAwaitedEndsCall ==
    (out.op = "process" /\ out.intent = "neutral"
        /\ (out.gen.kind = "raise" \/ out.rag.kind = "raise"))
    => IF C20_RaisedWhileAwaited
       THEN /\ out.doc = << Say(TECHNICAL_ISSUE), Hangup >>
            /\ ~Continues(out.doc)
            /\ sessions[out.call_sid] = NoSession
       ELSE /\ Continues(out.doc)
            /\ ~HangsUp(out.doc)
            /\ sessions[out.call_sid] # NoSession
            /\ out.gen.kind = "raise" => out.reply = FALLBACK_REPLY
            /\ (out.gen.kind = "value" /\ out.gen.at < GENERATION_TIMEOUT
                    /\ Len(out.gen.text) > 0)
                => out.combined = out.gen.text

C20_Witness ==
    /\ out.op = "process"
    /\ out.intent = "neutral"
    /\ out.gen.kind = "raise"
    /\ out.gen.at < GENERATION_TIMEOUT
    /\ out.doc = << Say(TECHNICAL_ISSUE), Hangup >>

(* C13: a neutral turn runs its combination step only when both of its     *)
(* collaborators are resolved, each by its result or by the timeout of its *)
(* wait, and it combines nothing but what its own waits captured; a result *)
(* that arrives after its wait timed out is dropped: its arrival leaves    *)
(* the store, the bot objects and every turn in flight as they were, so it *)
(* is in no later reply.                                                   *)
C13_Combined ==
    (NeutralTurn /\ out.raised = "" /\ Continues(out.doc))
    => /\ out.gen.kind # "none"
       /\ out.rag.kind # "none"
       /\ out.gen.at <= out.elapsed \/ "timeout_main" \in out.log
       /\ out.rag.at <= out.elapsed \/ "timeout_rag" \in out.log
       /\ out.main_response =
              (IF out.gen.kind = "value" /\ out.gen.at < GENERATION_TIMEOUT
               THEN Some(out.gen.text) ELSE None)
       /\ "timeout_main" \in out.log => out.reply = FALLBACK_REPLY
       /\ "timeout_rag" \in out.log =>
              /\ out.rag_context = None
              /\ out.combined \in { FALLBACK_REPLY, out.gen.text }

C13_LateArrival ==
    (workers' # workers /\ workers' \subseteq workers)
    => /\ sessions' = sessions
       /\ heap' = heap
       /\ req' = req
       /\ out'.doc = << >>

C13_LateResultsDiscarded == [](C13_Combined) /\ [][C13_LateArrival]_vars

C13_Witness ==
    /\ out.op = "late"
    /\ \E r \in Reqs :
           /\ req[r].pc = "await_rag"
           /\ req[r].call_sid # out.call_sid
           /\ "timeout_main" \in req[r].log

---------------------------------------------------------------------------
(* C14: a non-empty turn answered without error that is the                *)
(* EXCHANGE_CEILING-th such turn of its call, or a later one, does not     *)
(* gather again: it hangs up and leaves no session for the call.           *)
C14_NoGatherAtCeiling ==
    (/\ out.op = "process"
     /\ ~EmptyTurn(out)
     /\ out.raised = ""
     /\ call.turns >= EXCHANGE_CEILING)
        => (/\ ~Continues(out.doc)
            /\ HangsUp(out.doc)
            /\ sessions[Watched] = NoSession)

---------------------------------------------------------------------------
(* C15: the run of consecutive empty utterances that a call has been       *)
(* re-prompted for stays below a fixed ceiling: no call is re-prompted     *)
(* MaxEmpties times in a row.                                              *)
C15_RepromptRunBounded == call.empties < MaxEmpties

---------------------------------------------------------------------------
(* C16: while a live call has exchanged no utterance yet, a /process whose *)
(* utterance is empty or only whitespace answers with a document that      *)
(* gathers again and does not hang up, and leaves the store, every bot     *)
(* object and every turn in flight as they were; it is not classified and  *)
(* no collaborator runs for it: every utterance that is classified or      *)
(* handed to a collaborator holds a character that is not whitespace.      *)
C16_Spoken(text) == \E i \in 1..Len(text) : text[i] \notin Whitespace

C16_OnlySpeechIsProcessed ==
    /\ \A r \in Reqs : req[r].pc # "idle" => C16_Spoken(req[r].user_input)
    /\ (out.user_input # << >> \/ out.intent # "" \/ out.gen # NoOutcome
            \/ out.rag # NoOutcome \/ out.combined # << >>)
           => C16_Spoken(out.user_input)

C16_Step ==
    (/\ out'.op = "process"
     /\ \A r \in Reqs : req[r].pc = "idle"
     /\ sessions[Watched] # NoSession
     /\ call.turns = 0
     /\ ~C16_Spoken(IF out'.speech.present THEN out'.speech.text ELSE << >>))
        => (/\ Continues(out'.doc)
            /\ ~HangsUp(out'.doc)
            /\ out'.raised = ""
            /\ out'.intent = ""
            /\ out'.gen = NoOutcome
            /\ out'.rag = NoOutcome
            /\ out'.bot = heap[sessions[Watched]]
            /\ UNCHANGED << sessions, heap, req >>
            /\ call'.turns = 0
            /\ call'.status = "live")

C16_EmptyFirstTurnReprompts == [](C16_OnlySpeechIsProcessed) /\ [][C16_Step]_vars

C16_Witness ==
    /\ out.op = "process"
    /\ out.speech = Some(<< " ", " ", " " >>)
    /\ Continues(out.doc)
    /\ call.turns = 0
    /\ call.empties = 1
    /\ sessions[Watched] # NoSession

---------------------------------------------------------------------------
(* C17: once the time-to-live of a session has passed after the end of its *)
(* call, the call has no session in the store.                             *)
C17_NoSessionOutlivesTTL ==
    call.status = "stale" => sessions[Watched] = NoSession

---------------------------------------------------------------------------
(* C19: a turn composes its reply from the counters the session had before *)
(* the turn, and a turn that takes the error path returns with the         *)
(* counters of the bot object as they were before the turn.                *)
C19_Step ==
    (/\ out'.op = "process"
     /\ sessions[Watched] # NoSession
     /\ app = "webhook")
        => (/\ out'.raised # "" => out'.bot = heap[sessions[Watched]]
            /\ out'.combined # << >> =>
                   \E m \in GeminiBrief :
                       out'.combined = generate_response(heap[sessions[Watched]],
                                                         out'.user_input, m))

C19_CountersAfterReply == [][C19_Step]_vars

---------------------------------------------------------------------------
(* C21: a /voice for a call that already has a session gives the call a    *)
(* new record: get_session then answers an object whose counters are those *)
(* of a new bot, whatever the counters of the earlier record were, and     *)
(* that no turn in flight refers to; a turn that started on the earlier    *)
(* record keeps that record, with its counters as they were.               *)
C21_Step ==
    (/\ out'.op = "voice"
     /\ out'.call_sid = Watched
     /\ get_session(sessions, Watched) # NoSession)
        => (/\ get_session(sessions', Watched) # NoSession
            /\ heap'[get_session(sessions', Watched)]
                   = (IF app = "main" THEN NewBot ELSE NewAssistant)
            /\ \A r \in Reqs :
                   req[r].pc # "idle" =>
                       /\ req'[r].bot # get_session(sessions', Watched)
                       /\ req'[r].bot # NoSession
                       /\ heap'[req'[r].bot] = heap[req[r].bot]
                       /\ [req'[r] EXCEPT !.bot = 0] = [req[r] EXCEPT !.bot = 0])

C21_SecondCreateReplaces == [][C21_Step]_vars

C21_Witness ==
    /\ out.op = "voice"
    /\ req["r1"].pc = "await_rag"
    /\ req["r1"].call_sid = Watched
    /\ get_session(sessions, Watched) # NoSession
    /\ req["r1"].bot # get_session(sessions, Watched)

---------------------------------------------------------------------------
(* C22: a turn classified strong_confirm returns with confirm_count of the *)
(* bot 2 higher than before and reject_count as before, a turn classified  *)
(* strong_reject with reject_count 2 higher and confirm_count as before;   *)
(* either one says its fixed closing line and nothing else, and neither    *)
(* the Reply Generator nor the Knowledge Lookup is launched: no outcome of *)
(* theirs is awaited and no turn is left suspended on them.                *)
C22_Step ==
    (/\ out'.op = "process"
     /\ out'.intent \in Decisive
     /\ get_session(sessions, out'.call_sid) # NoSession
     /\ \A r \in Reqs : req[r].pc = "idle")
        => LET before == heap[get_session(sessions, out'.call_sid)]
               confirm == out'.intent = "strong_confirm"
           IN  /\ out'.bot.confirm_count
                      = before.confirm_count + (IF confirm THEN 2 ELSE 0)
               /\ out'.bot.reject_count
                      = before.reject_count + (IF confirm THEN 0 ELSE 2)
               /\ out'.reply = (IF confirm THEN CONFIRM_REPLY ELSE REJECT_REPLY)
               /\ Spoken(out'.doc) = { clean_text_for_tts(out'.reply) }
               /\ out'.gen = NoOutcome
               /\ out'.rag = NoOutcome
               /\ out'.main_response = None
               /\ out'.rag_context = None
               /\ \A r \in Reqs : req'[r].pc = "idle"

C22_DecisiveTurnCountsTwo == [][C22_Step]_vars

C22_Witness ==
    /\ out.op = "process"
    /\ out.intent = "strong_reject"
    /\ out.bot = [confirm_count |-> 0, reject_count |-> 2]
    /\ out.reply = REJECT_REPLY
    /\ out.gen = NoOutcome
    /\ \A r \in Reqs : req[r].pc = "idle"

---------------------------------------------------------------------------
---------------------------------------------------------------------------
(* C24, as claimed: once a /process has closed the call (hangup, session   *)
(* destroyed) and no /voice has come since, no /process response for the   *)
(* call continues listening, duplicates that were in flight included.      *)
C24_NoContinueAfterClose ==
    (out.op = "process" /\ call.status = "closed") => ~Continues(out.doc)

\* the step returns the response of a /process that arrived in this step
C24_Arrives == out'.op = "process" /\ \A r \in Reqs : req'[r].pc = req[r].pc

\* the step returns the response of a /process that was suspended
C24_Resumes ==
    /\ out'.op = "process"
    /\ \E r \in Reqs : req[r].pc = "await_rag" /\ req'[r].pc = "idle"

(* C24, amended: a closed call has no session until the next /voice, and   *)
(* every /process that arrives for it meanwhile is answered "session       *)
(* expired" with a hangup; but a neutral turn that was suspended on its    *)
(* collaborators when the call was closed still returns its reply with a   *)
(* gather, unless its lookup raises, and leaves the call without session.  *)
C24_ClosedHasNoSession ==
    call.status = "closed" => get_session(sessions, Watched) = NoSession

C24_Step ==
    call.status = "closed" =>
        /\ C24_Arrives => out'.doc = ExpiredDoc /\ call'.status = "closed"
        /\ C24_Resumes =>
               /\ out'.raised = "" => Continues(out'.doc) /\ ~HangsUp(out'.doc)
               /\ out'.raised # "" => HangsUp(out'.doc) /\ ~Continues(out'.doc)
               /\ get_session(sessions', Watched) = NoSession

C24_OnlyArrivalsSeeTheClose == [](C24_ClosedHasNoSession) /\ [][C24_Step]_vars

C24_Witness ==
    /\ out.op = "process"
    /\ out.intent = "neutral"
    /\ Continues(out.doc)
    /\ call.status = "closed"
    /\ get_session(sessions, Watched) = NoSession

---------------------------------------------------------------------------
(* C25: every line that a neutral turn hands to speech synthesis as its    *)
(* reply, that is the reply after clean_text_for_tts, is at most           *)
(* max_reply_chars characters long.                                        *)
C25_SpokenWithinCap ==
    (NeutralTurn /\ out.raised = "" /\ Continues(out.doc)) =>
        \A line \in Spoken(out.doc) : Len(line) <= MAX_REPLY_CHARS

===========================================================================
